---- MODULE Spec2Model ----
(***************************************************************************)
(* Pure-Python fallback of the PAM shim (src/src/PAM.py): the dispatcher   *)
(* class pam, the transaction handle PamHandle_type and the environment    *)
(* mapping PamEnvMapping, as a state machine.                              *)
(*                                                                         *)
(* Python strings are TLA+ strings; a Python value is a record             *)
(* [t, s, n] (type tag, string payload, integer payload); a dict is a      *)
(* function whose domain is the set of its keys.                           *)
(***************************************************************************)
EXTENDS Integers, Sequences, FiniteSets, TLC

VARIABLES
    user_module,    \* pam._user_module: the loaded module, or NoModule
    pamh,           \* pam._pamh: the transaction handle, or NoHandle
    service_args,   \* pam._service_args, once start has assigned it
    op,             \* the last operation called and its arguments
    invoked,        \* the module functions that operation invoked, in order
    result,         \* what that operation returned or raised
    writes          \* how many attribute writes the handle has received

vars == <<user_module, pamh, service_args, op, invoked, result, writes>>

----------------------------------------------------------------------------
(* Python values *)

PyStr(s) == [t |-> "str", s |-> s, n |-> 0]
PyInt(n) == [t |-> "int", s |-> "", n |-> n]
None == [t |-> "none", s |-> "", n |-> 0]
Obj(tag) == [t |-> "obj", s |-> tag, n |-> 0]

IsStr(v) == v.t = "str"

(* An optional argument vector: argv=None, or a list of strings. *)
NoArgv == [some |-> FALSE, v |-> <<>>]
Argv(l) == [some |-> TRUE, v |-> l]

(* What a call does: return a value, or raise an exception.  An exception  *)
(* has a class, the code it carries when it is a PamException (pam_result) *)
(* or a PAM.error (args[1]), None otherwise, and its positional arguments  *)
(* other than the code.                                                    *)
Returned(v) == [kind |-> "return", exc |-> "", val |-> v, code |-> None, args |-> <<>>]
Raised(exc, code, args) ==
    [kind |-> "raise", exc |-> exc, val |-> None, code |-> code, args |-> args]

(* str(e) of an exception with positional arguments a: the empty string,   *)
(* the single argument, or the repr of the argument tuple.                 *)
StrOfExc(a) ==
    IF Len(a) = 0 THEN ""
    ELSE IF Len(a) = 1 THEN a[1]
    ELSE "('" \o a[1] \o "', '" \o a[2] \o "')"

----------------------------------------------------------------------------
(* String helpers: str.startswith, str.endswith, "c in s", str.split. *)

StartsWith(s, p) == Len(s) >= Len(p) /\ SubSeq(s, 1, Len(p)) = p
EndsWith(s, p) == Len(s) >= Len(p) /\ SubSeq(s, Len(s) - Len(p) + 1, Len(s)) = p
Contains(s, c) == \E i \in 1..Len(s) : SubSeq(s, i, i) = c

IsSpace(c) == c \in {" ", "\t", "\n"}

(* s.split(): the maximal runs of non-whitespace characters of s, in order. *)
RECURSIVE SplitFrom(_, _, _)
SplitFrom(s, i, word) ==
    IF i > Len(s)
    THEN IF word = "" THEN <<>> ELSE <<word>>
    ELSE IF IsSpace(SubSeq(s, i, i))
         THEN IF word = "" THEN SplitFrom(s, i + 1, "")
              ELSE <<word>> \o SplitFrom(s, i + 1, "")
         ELSE SplitFrom(s, i + 1, word \o SubSeq(s, i, i))
Split(s) == SplitFrom(s, 1, "")

(* s.split(sep, 1) for an s that contains sep (a single character). *)
FirstIndex(s, c) == CHOOSE i \in 1..Len(s) :
    /\ SubSeq(s, i, i) = c
    /\ \A j \in 1..(i - 1) : SubSeq(s, j, j) # c
SplitOnce(s, c) ==
    <<SubSeq(s, 1, FirstIndex(s, c) - 1), SubSeq(s, FirstIndex(s, c) + 1, Len(s))>>

----------------------------------------------------------------------------
(* PamHandle_type: the transaction handle.  attrs is the instance          *)
(* dictionary; env is the dictionary _d of the PamEnvMapping attached to   *)
(* the handle by start.                                                    *)

PyBool(b) == [t |-> "bool", s |-> "", n |-> IF b THEN 1 ELSE 0]

(* The truth value Python gives a value. *)
Truthy(v) ==
    CASE v.t = "none" -> FALSE
      [] v.t = "str" -> v.s # ""
      [] v.t \in {"int", "bool"} -> v.n # 0
      [] OTHER -> TRUE

NoAttrs == [a \in {} |-> None]
NoEnv == [k \in {} |-> None]
NoHandle == [built |-> FALSE, attrs |-> NoAttrs, env |-> NoEnv]
NewObject == [built |-> TRUE, attrs |-> NoAttrs, env |-> NoEnv]

(* item_names of __getattr__, and the keys of _item_const of __setattr__. *)
item_names ==
    {"authtok", "authtok_type", "oldauthtok", "rhost", "ruser", "service",
     "tty", "user", "user_prompt", "xdisplay", "xauthdata"}
ItemConstName(name) ==
    CASE name = "tty" -> "PAM_TTY"
      [] name = "user" -> "PAM_USER"
      [] name = "rhost" -> "PAM_RHOST"
      [] name = "ruser" -> "PAM_RUSER"
      [] name = "user_prompt" -> "PAM_USER_PROMPT"
      [] name = "xdisplay" -> "PAM_XDISPLAY"
      [] name = "authtok_type" -> "PAM_AUTHTOK_TYPE"
      [] OTHER -> ""
InItemConst(name) == ItemConstName(name) # ""

(* PamHandle_type.__getattr__, called when normal lookup finds nothing. *)
HandleGetattrHook(name) ==
    IF name \in item_names THEN Returned(None)
    ELSE IF name \in {"XAuthData", "Message", "Response"} THEN Returned(Obj(name))
    ELSE Raised("AttributeError", None, <<name>>)

(* h.name: the instance dictionary first, then __getattr__. *)
HandleGet(h, name) ==
    IF name \in DOMAIN h.attrs THEN Returned(h.attrs[name])
    ELSE HandleGetattrHook(name)

(* getattr(h, name, default), where h may be None. *)
GetattrOr(h, name, default) ==
    IF ~h.built THEN default
    ELSE IF HandleGet(h, name).kind = "raise" THEN default
    ELSE HandleGet(h, name).val

(* object.__setattr__(h, name, value) *)
ObjectSetattr(h, name, value) ==
    [h EXCEPT !.attrs =
        [a \in DOMAIN h.attrs \cup {name} |-> IF a = name THEN value ELSE h.attrs[a]]]

(* Whether __setattr__ lets the name through its first branch. *)
IsPrivateName(name) == StartsWith(name, "_")

(* Whether __setattr__ treats the name as a constant of the sealed table. *)
IsReservedName(name) == StartsWith(name, "PAM_") \/ StartsWith(name, "_PAM_")

(* PamHandle_type.__setattr__: the handle after the write, and the outcome. *)
HandleSetattr(h, name, value) ==
    IF IsPrivateName(name)
    THEN [h |-> ObjectSetattr(h, name, value), out |-> Returned(None)]
    ELSE IF Truthy(GetattrOr(h, "_constants_locked", PyBool(FALSE))) /\ IsReservedName(name)
    THEN [h |-> h, out |-> Raised("AttributeError", None,
            <<"attribute '" \o name \o "' of 'PamHandle_type' objects is not writable">>)]
    ELSE IF InItemConst(name) /\ ~IsStr(value)
    THEN [h |-> h, out |-> Raised("TypeError", None,
            <<"PAM item " \o ItemConstName(name) \o " must be set to a string">>)]
    ELSE [h |-> ObjectSetattr(h, name, value), out |-> Returned(None)]

(* A run of attribute assignments; the first one that raises ends it. *)
RECURSIVE SetattrAll(_, _)
SetattrAll(h, todo) ==
    IF todo = <<>> THEN [h |-> h, out |-> Returned(None)]
    ELSE LET w == HandleSetattr(h, todo[1][1], todo[1][2])
         IN IF w.out.kind = "raise" THEN w
            ELSE SetattrAll(w.h, Tail(todo))

(* PamHandle_type.__init__ *)
HandleInit(module_path, user, conv) ==
    SetattrAll(NewObject,
        << <<"module", None>>,
           <<"module_path", PyStr(module_path)>>,
           <<"user", user>>,
           <<"conv", conv>>,
           <<"exception", Obj("PamException")>>,
           <<"_constants_locked", PyBool(FALSE)>> >>)

(* PamHandle_type._populate_constants: consts is the module's              *)
(* PAM_CONSTANTS, [isdict, tab]; every entry is written with               *)
(* object.__setattr__, then the table is locked.                           *)
PopulateConstants(h, consts) ==
    LET tab == IF consts.isdict THEN consts.tab ELSE [a \in {"PAM_SUCCESS"} |-> 0]
        filled == [h EXCEPT !.attrs =
            [a \in DOMAIN h.attrs \cup DOMAIN tab |->
                IF a \in DOMAIN tab THEN PyInt(tab[a]) ELSE h.attrs[a]]]
    IN ObjectSetattr(filled, "_constants_locked", PyBool(TRUE))

----------------------------------------------------------------------------
(* PamEnvMapping: d is the dictionary _d; keys and values given to the     *)
(* operations are Python values, the stored values are Python values.      *)

(* The key checks shared by __getitem__ and __setitem__; "return" when the *)
(* key passes.                                                             *)
EnvKeyCheck(key) ==
    IF ~IsStr(key) THEN Raised("TypeError", None, <<"PAM environment key must be a string">>)
    ELSE IF key.s = "" THEN Raised("ValueError", None, <<"PAM environment key mustn't be 0 length">>)
    ELSE IF Contains(key.s, "=") THEN Raised("ValueError", None, <<"PAM environment key can't contain '='">>)
    ELSE Returned(None)

(* "key in self._d": only a string can be a key of this dictionary. *)
EnvHas(d, key) == IsStr(key) /\ key.s \in DOMAIN d

EnvGetitem(d, key) ==
    IF EnvKeyCheck(key).kind = "raise" THEN EnvKeyCheck(key)
    ELSE IF EnvHas(d, key) THEN Returned(d[key.s])
    ELSE Raised("KeyError", None, <<key.s>>)

(* EnvSetitem that keeps the value a key already has. *)
EnvSetitemKeepFirst(d, key, value) ==
    IF EnvKeyCheck(key).kind = "raise" THEN [d |-> d, out |-> EnvKeyCheck(key)]
    ELSE IF ~IsStr(value)
    THEN [d |-> d, out |-> Raised("TypeError", None, <<"PAM environment value must be a string">>)]
    ELSE [d |-> [k \in DOMAIN d \cup {key.s} |-> IF k \in DOMAIN d THEN d[k] ELSE value],
          out |-> Returned(None)]

(* EnvSetitem that checks the value before the key. *)
EnvSetitemValueFirst(d, key, value) ==
    IF ~IsStr(value)
    THEN [d |-> d, out |-> Raised("TypeError", None, <<"PAM environment value must be a string">>)]
    ELSE IF EnvKeyCheck(key).kind = "raise" THEN [d |-> d, out |-> EnvKeyCheck(key)]
    ELSE [d |-> [k \in DOMAIN d \cup {key.s} |-> IF k = key.s THEN value ELSE d[k]],
          out |-> Returned(None)]

EnvSetitem(d, key, value) ==
    IF EnvKeyCheck(key).kind = "raise" THEN [d |-> d, out |-> EnvKeyCheck(key)]
    ELSE IF ~IsStr(value)
    THEN [d |-> d, out |-> Raised("TypeError", None, <<"PAM environment value must be a string">>)]
    ELSE [d |-> [k \in DOMAIN d \cup {key.s} |-> IF k = key.s THEN value ELSE d[k]],
          out |-> Returned(None)]

EnvDelitem(d, key) ==
    IF EnvHas(d, key)
    THEN [d |-> [k \in DOMAIN d \ {key.s} |-> d[k]], out |-> Returned(None)]
    ELSE [d |-> d, out |-> Raised("KeyError", None, <<key.s>>)]

----------------------------------------------------------------------------
(* Configuration file and module discovery (pam.start).  A configuration   *)
(* file is [readable, lines]: open() fails when it is not readable.        *)

Qualifies(parts) == Len(parts) >= 4 /\ EndsWith(parts[3], "pam_python.so")

NoScript == [some |-> FALSE, path |-> ""]
Script(path) == [some |-> TRUE, path |-> path]

(* The first loop over the file: parts[3] of the first qualifying line. *)
RECURSIVE FirstScript(_)
FirstScript(lines) ==
    IF lines = <<>> THEN NoScript
    ELSE IF Qualifies(Split(lines[1])) THEN Script(Split(lines[1])[4])
    ELSE FirstScript(Tail(lines))

(* os.path.join(os.getcwd(), 'test.py') *)
FallbackScript == "/cwd/test.py"

(* ServiceArgsFrom with a pam.conf reading of the line: keyed by the type  *)
(* field, the script path left out of the arguments.                       *)
RECURSIVE ServiceArgsByType(_, _)
ServiceArgsByType(lines, tab) ==
    IF lines = <<>> THEN tab
    ELSE LET parts == Split(lines[1])
         IN IF Qualifies(parts)
            THEN ServiceArgsByType(Tail(lines),
                    [k \in DOMAIN tab \cup {parts[2]} |->
                        IF k = parts[2] THEN SubSeq(parts, 5, Len(parts)) ELSE tab[k]])
            ELSE ServiceArgsByType(Tail(lines), tab)

(* ServiceArgsFrom that keeps the first line of a service token. *)
RECURSIVE ServiceArgsKeepFirst(_, _)
ServiceArgsKeepFirst(lines, tab) ==
    IF lines = <<>> THEN tab
    ELSE LET parts == Split(lines[1])
         IN IF Qualifies(parts) /\ parts[1] \notin DOMAIN tab
            THEN ServiceArgsKeepFirst(Tail(lines),
                    [k \in DOMAIN tab \cup {parts[1]} |->
                        IF k = parts[1] THEN SubSeq(parts, 4, Len(parts)) ELSE tab[k]])
            ELSE ServiceArgsKeepFirst(Tail(lines), tab)

(* The second loop over the file: _service_args[parts[0]] = parts[3:]. *)
RECURSIVE ServiceArgsFrom(_, _)
ServiceArgsFrom(lines, tab) ==
    IF lines = <<>> THEN tab
    ELSE LET parts == Split(lines[1])
         IN IF Qualifies(parts)
            THEN ServiceArgsFrom(Tail(lines),
                    [k \in DOMAIN tab \cup {parts[1]} |->
                        IF k = parts[1] THEN SubSeq(parts, 4, Len(parts)) ELSE tab[k]])
            ELSE ServiceArgsFrom(Tail(lines), tab)

NoTable == [k \in {} |-> <<>>]

(* Configuration files. *)
CfgLogin == [readable |-> TRUE, lines |->
    <<"login auth /lib/pam_python.so /opt/mod.py arg1 arg2">>]
CfgPamD == [readable |-> TRUE, lines |->
    <<"# pam.d style",
      "auth required pam_python.so /opt/mod.py arg1 arg2",
      "auth  optional\tpam_unix.so nullok try_first_pass",
      "password required /lib/security/pam_python.so /opt/mod.py -v",
      "session required pam_python.so",
      "session optional pam_python.so /opt/mod.py quiet">>]
CfgTwice == [readable |-> TRUE, lines |->
    <<"auth required pam_python.so /opt/first.py a",
      "account required pam_python.so /opt/second.py",
      "",
      "auth required pam_python.so /opt/second.py b c">>]
CfgOther == [readable |-> TRUE, lines |->
    <<"auth required pam_unix.so nullok try_first_pass",
      "auth required pam_python.so">>]
CfgMissing == [readable |-> FALSE, lines |-> <<>>]
ConfigFiles == {CfgLogin, CfgPamD, CfgTwice, CfgOther, CfgMissing}

(* What the two loops of start compute from each readable configuration   *)
(* file, tabulated once per file.                                          *)
Scanned ==
    [cfg \in ConfigFiles |->
        [script |-> FirstScript(cfg.lines), tab |-> ServiceArgsFrom(cfg.lines, NoTable)]]

(* module_script: from the file, or the conventional script when the file  *)
(* cannot be read and that script exists.                                  *)
DiscoverModule(cfg, fallback) ==
    IF cfg.readable THEN Scanned[cfg].script
    ELSE IF fallback THEN Script(FallbackScript)
    ELSE NoScript

(* _service_args: empty when the file cannot be read. *)
ParseServiceArgs(cfg) ==
    IF cfg.readable THEN Scanned[cfg].tab ELSE NoTable

----------------------------------------------------------------------------
(* The loaded module: the attributes the dispatcher looks up by name, and  *)
(* its PAM_CONSTANTS.  An attribute is a function ("func"), missing        *)
(* ("absent"), bound to None ("none") or bound to a value that cannot be   *)
(* called ("noncallable").                                                 *)

EntryPoints ==
    {"pam_sm_authenticate", "pam_sm_setcred", "pam_sm_acct_mgmt",
     "pam_sm_open_session", "pam_sm_close_session", "pam_sm_chauthtok"}
ModuleNames == EntryPoints \cup {"pam_sm_end"}

NoConsts == [isdict |-> FALSE, tab |-> [a \in {} |-> 0]]
NoModule ==
    [loaded |-> FALSE, file |-> "", attrs |-> [a \in ModuleNames |-> "absent"],
     consts |-> NoConsts]

(* Module scripts a configuration can point at.  ok = FALSE is a script    *)
(* that cannot be loaded (missing file, error while executing it).         *)
SrcFull ==
    [ok |-> TRUE, attrs |-> [a \in ModuleNames |-> "func"],
     consts |-> [isdict |-> TRUE,
                 tab |-> [PAM_SUCCESS |-> 0, PAM_PERM_DENIED |-> 9, PAM_IGNORE |-> 7,
                          PAM_PRELIM_CHECK |-> 16, PAM_UPDATE_AUTHTOK |-> 32,
                          _PAM_RETURN_VALUES |-> 32]]]
SrcBare ==
    [ok |-> TRUE,
     attrs |-> [pam_sm_authenticate |-> "func", pam_sm_setcred |-> "absent",
                pam_sm_acct_mgmt |-> "noncallable", pam_sm_open_session |-> "func",
                pam_sm_close_session |-> "none", pam_sm_chauthtok |-> "func",
                pam_sm_end |-> "absent"],
     consts |-> NoConsts]
SrcPartial ==
    [ok |-> TRUE,
     attrs |-> [pam_sm_authenticate |-> "absent", pam_sm_setcred |-> "func",
                pam_sm_acct_mgmt |-> "func", pam_sm_open_session |-> "noncallable",
                pam_sm_close_session |-> "func", pam_sm_chauthtok |-> "absent",
                pam_sm_end |-> "func"],
     consts |-> [isdict |-> TRUE, tab |-> [PAM_SUCCESS |-> 0, PAM_IGNORE |-> 7]]]
SrcBroken == [ok |-> FALSE, attrs |-> NoModule.attrs, consts |-> NoConsts]
ModuleSources == {SrcFull, SrcBare, SrcPartial, SrcBroken}

Users == {PyStr("alice"), None}
Convs == {Obj("conv")}

(* The operation record: name and arguments of the last call. *)
Op(name, flags, argv, key, value, cfg) ==
    [name |-> name, flags |-> flags, argv |-> argv, key |-> key, value |-> value,
     cfg |-> cfg]

(* pam.start: the dispatcher's fields after the call, and its outcome.     *)
(* cur is <<user_module, pamh, service_args>> before the call.             *)
StartOutcome(cur, cfg, fallback, src, user, conv) ==
    LET script == DiscoverModule(cfg, fallback)
        mod == [loaded |-> TRUE, file |-> script.path, attrs |-> src.attrs,
                consts |-> src.consts]
        made == HandleInit(script.path, user, conv)
        sealed == PopulateConstants(made.h, src.consts)
        withenv == [HandleSetattr(sealed, "env", Obj("PamEnvMapping")).h
                        EXCEPT !.env = NoEnv]
    IN IF ~script.some
       THEN [user_module |-> cur[1], pamh |-> cur[2], service_args |-> cur[3],
             out |-> Raised("RuntimeError", None, <<"could not find target python module">>)]
       ELSE IF ~src.ok
       THEN [user_module |-> cur[1], pamh |-> cur[2], service_args |-> cur[3],
             out |-> Raised("ImportError", None, <<script.path>>)]
       ELSE IF made.out.kind = "raise"
       THEN [user_module |-> mod, pamh |-> cur[2], service_args |-> cur[3],
             out |-> made.out]
       ELSE [user_module |-> mod, pamh |-> withenv,
             service_args |-> [set |-> TRUE, tab |-> ParseServiceArgs(cfg)],
             out |-> Returned(None)]

(* start is called on a dispatcher that has not loaded a module: a second *)
(* start on one that has is outside the dispatcher's contract.            *)
Start ==
    /\ ~user_module.loaded
    /\ \E cfg \in ConfigFiles, fallback \in BOOLEAN, src \in ModuleSources,
          user \in Users, conv \in Convs :
        LET s == StartOutcome(<<user_module, pamh, service_args>>,
                              cfg, fallback, src, user, conv)
        IN /\ user_module' = s.user_module
           /\ pamh' = s.pamh
           /\ service_args' = s.service_args
           /\ op' = Op("start", 0, NoArgv, None, user, cfg.lines)
           /\ invoked' = <<>>
           /\ result' = s.out
           /\ writes' = 0

----------------------------------------------------------------------------
(* pam._call_handler *)

PAM_IGNORE_DEFAULT == 25
PAM_PERM_DENIED_DEFAULT == 6
PAM_PRELIM_CHECK_DEFAULT == 16384
PAM_UPDATE_AUTHTOK_DEFAULT == 8192
SYMBOL_NOT_FOUND_CODE == 2
SERVICE_ERR_CODE == 3

(* isinstance(v, int): bool is a subclass of int. *)
IsIntInstance(v) == v.t \in {"int", "bool"}

(* a == b on Python values: numbers compare by value, the rest by type and *)
(* content.                                                                *)
PyEq(a, b) ==
    IF IsIntInstance(a) /\ IsIntInstance(b) THEN a.n = b.n
    ELSE a = b

(* service_map.get(name) *)
ServiceOf(name) ==
    CASE name \in {"pam_sm_authenticate", "pam_sm_setcred"} -> "auth"
      [] name = "pam_sm_acct_mgmt" -> "account"
      [] name \in {"pam_sm_open_session", "pam_sm_close_session"} -> "session"
      [] name = "pam_sm_chauthtok" -> "password"
      [] OTHER -> ""

(* The default argv: [mp], mp the module's __file__ or else the handle's   *)
(* module_path; argv stays None when neither is there.                     *)
DefaultArgv(mod, h) ==
    IF mod.loaded THEN Argv(<<mod.file>>)
    ELSE IF h.built /\ GetattrOr(h, "module_path", None) # None
    THEN Argv(<<GetattrOr(h, "module_path", None).s>>)
    ELSE NoArgv

(* ResolveArgv that never looks at the service arguments. *)
ResolveArgvDefaultOnly(mod, h, sargs, name, argv) ==
    IF argv.some THEN argv ELSE DefaultArgv(mod, h)

(* The argv handed to the module function. *)
ResolveArgv(mod, h, sargs, name, argv) ==
    IF argv.some THEN argv
    ELSE IF ServiceOf(name) # "" /\ sargs.set /\ ServiceOf(name) \in DOMAIN sargs.tab
    THEN Argv(sargs.tab[ServiceOf(name)])
    ELSE DefaultArgv(mod, h)

(* RemapCode without the remap. *)
RemapCodeRaw(h, res) == res

(* The code of the PAM.error raised for a non-zero integer result. *)
RemapCode(h, res) ==
    IF PyEq(res, GetattrOr(h, "PAM_IGNORE", PyInt(PAM_IGNORE_DEFAULT)))
    THEN GetattrOr(h, "PAM_PERM_DENIED", PyInt(PAM_PERM_DENIED_DEFAULT))
    ELSE res

(* "except Exception" catches the classes derived from Exception; these   *)
(* derive from BaseException only.                                         *)
IsExceptionClass(exc) == exc \notin {"SystemExit", "KeyboardInterrupt", "GeneratorExit"}

(* Translate that wraps every exception of the module function. *)
TranslateWrapsAll(h, beh) ==
    IF beh.kind = "return"
    THEN IF IsIntInstance(beh.val) /\ beh.val.n # 0
         THEN Raised("error", RemapCode(h, beh.val), <<"pam service returned error">>)
         ELSE Returned(beh.val)
    ELSE IF ~IsExceptionClass(beh.exc) THEN beh
    ELSE Raised("PamException", PyInt(SERVICE_ERR_CODE), <<StrOfExc(beh.args)>>)

(* Translate handing a non-zero result back to the caller. *)
TranslateReturnsCode(h, beh) ==
    IF beh.kind = "return" THEN Returned(beh.val)
    ELSE IF beh.exc \in {"PamException", "error"} THEN beh
    ELSE IF ~IsExceptionClass(beh.exc) THEN beh
    ELSE Raised("PamException", PyInt(SERVICE_ERR_CODE), <<StrOfExc(beh.args)>>)

(* What _call_handler does with what the module function did (beh). *)
Translate(h, beh) ==
    IF beh.kind = "return"
    THEN IF IsIntInstance(beh.val) /\ beh.val.n # 0
         THEN Raised("error", RemapCode(h, beh.val), <<"pam service returned error">>)
         ELSE Returned(beh.val)
    ELSE IF beh.exc \in {"PamException", "error"} THEN beh
    ELSE IF ~IsExceptionClass(beh.exc) THEN beh
    ELSE Raised("PamException", PyInt(SERVICE_ERR_CODE), <<StrOfExc(beh.args)>>)

(* One invocation of a module function, as recorded in invoked. *)
Invocation(name, h, flags, argv, beh) ==
    [name |-> name, handle |-> h.built, flags |-> flags, argv |-> argv, out |-> beh]

(* CallHandler without the started check: the lookup on None finds        *)
(* nothing.                                                                *)
CallHandlerNoStartCheck(cur, name, flags, argv, beh) ==
    IF ~cur[1].loaded \/ cur[1].attrs[name] # "func"
    THEN [invoked |-> <<>>,
          out |-> Raised("error", PyInt(SYMBOL_NOT_FOUND_CODE), <<"Symbol not found">>)]
    ELSE [invoked |-> <<Invocation(name, cur[2], flags,
                            ResolveArgv(cur[1], cur[2], cur[3], name, argv), beh)>>,
          out |-> Translate(cur[2], beh)]

(* CallHandler without the callable check: calling the value raises a      *)
(* TypeError inside the try block.                                         *)
CallHandlerNoCallableCheck(cur, name, flags, argv, beh) ==
    IF ~cur[1].loaded
    THEN [invoked |-> <<>>, out |-> Raised("RuntimeError", None, <<"module not started">>)]
    ELSE IF cur[1].attrs[name] \in {"absent", "none"}
    THEN [invoked |-> <<>>,
          out |-> Raised("error", PyInt(SYMBOL_NOT_FOUND_CODE), <<"Symbol not found">>)]
    ELSE IF cur[1].attrs[name] = "noncallable"
    THEN [invoked |-> <<>>,
          out |-> Translate(cur[2], Raised("TypeError", None, <<"object is not callable">>))]
    ELSE [invoked |-> <<Invocation(name, cur[2], flags,
                            ResolveArgv(cur[1], cur[2], cur[3], name, argv), beh)>>,
          out |-> Translate(cur[2], beh)]

(* _call_handler(name, flags, argv): the invocations it makes and its      *)
(* outcome; cur is <<user_module, pamh, service_args>>, beh is what the    *)
(* module function does if it is invoked.                                  *)
CallHandler(cur, name, flags, argv, beh) ==
    IF ~cur[1].loaded
    THEN [invoked |-> <<>>, out |-> Raised("RuntimeError", None, <<"module not started">>)]
    ELSE IF cur[1].attrs[name] # "func"
    THEN [invoked |-> <<>>,
          out |-> Raised("error", PyInt(SYMBOL_NOT_FOUND_CODE), <<"Symbol not found">>)]
    ELSE [invoked |-> <<Invocation(name, cur[2], flags,
                            ResolveArgv(cur[1], cur[2], cur[3], name, argv), beh)>>,
          out |-> Translate(cur[2], beh)]

(* ChauthtokOutcome with the two flags in the other order. *)
ChauthtokUpdateFirst(cur, argv, b1, b2) ==
    LET prelim == GetattrOr(cur[2], "PAM_PRELIM_CHECK", PyInt(PAM_PRELIM_CHECK_DEFAULT))
        update == GetattrOr(cur[2], "PAM_UPDATE_AUTHTOK", PyInt(PAM_UPDATE_AUTHTOK_DEFAULT))
        first == CallHandler(cur, "pam_sm_chauthtok", update, argv, b1)
        second == CallHandler(cur, "pam_sm_chauthtok", prelim, argv, b2)
    IN IF first.out.kind = "raise" THEN first
       ELSE [invoked |-> first.invoked \o second.invoked, out |-> second.out]

(* pam.chauthtok: two calls of _call_handler; the second is made when the  *)
(* first returns.                                                          *)
ChauthtokOutcome(cur, argv, b1, b2) ==
    LET prelim == GetattrOr(cur[2], "PAM_PRELIM_CHECK", PyInt(PAM_PRELIM_CHECK_DEFAULT))
        update == GetattrOr(cur[2], "PAM_UPDATE_AUTHTOK", PyInt(PAM_UPDATE_AUTHTOK_DEFAULT))
        first == CallHandler(cur, "pam_sm_chauthtok", prelim, argv, b1)
        second == CallHandler(cur, "pam_sm_chauthtok", update, argv, b2)
    IN IF first.out.kind = "raise" THEN first
       ELSE [invoked |-> first.invoked \o second.invoked, out |-> second.out]

(* What a module function may do when invoked. *)
RetCodes == {0, 1, 7, 25}
ErrCodes == {25}
ModuleBehaviours ==
    {Returned(PyInt(r)) : r \in RetCodes}
    \cup {Returned(None)}
    \cup {Raised("PamException", PyInt(c), <<"denied">>) : c \in ErrCodes}
    \cup {Raised("error", PyInt(c), <<"native">>) : c \in ErrCodes}
    \cup {Raised("RuntimeError", None, a) : a \in {<<"disk full">>, <<"a", "b">>}}
    \cup {Raised("SystemExit", None, <<"bye">>)}

(* The arguments a caller passes. *)
MaxFlag == 1
Flags == 0..MaxFlag
ArgvInputs == {NoArgv, Argv(<<"x.py", "debug">>)}

Cur == <<user_module, pamh, service_args>>

(* A lifecycle entry point that is one call of _call_handler. *)
Lifecycle(opname, fname) ==
    \E flags \in Flags, argv \in ArgvInputs, beh \in ModuleBehaviours :
        LET c == CallHandler(Cur, fname, PyInt(flags), argv, beh)
        IN /\ op' = Op(opname, flags, argv, None, None, <<>>)
           /\ invoked' = c.invoked
           /\ result' = c.out
           /\ UNCHANGED <<user_module, pamh, service_args, writes>>

Authenticate == Lifecycle("authenticate", "pam_sm_authenticate")
Setcred == Lifecycle("setcred", "pam_sm_setcred")
AcctMgmt == Lifecycle("acct_mgmt", "pam_sm_acct_mgmt")
OpenSession == Lifecycle("open_session", "pam_sm_open_session")
CloseSession == Lifecycle("close_session", "pam_sm_close_session")

Chauthtok ==
    \E flags \in Flags, argv \in ArgvInputs, b1 \in ModuleBehaviours :
      \E b2 \in IF CallHandler(Cur, "pam_sm_chauthtok", None, argv, b1).out.kind = "raise"
                THEN {b1} ELSE ModuleBehaviours :
        LET c == ChauthtokOutcome(Cur, argv, b1, b2)
        IN /\ op' = Op("chauthtok", flags, argv, None, None, <<>>)
           /\ invoked' = c.invoked
           /\ result' = c.out
           /\ UNCHANGED <<user_module, pamh, service_args, writes>>

(* pam.__init__ *)
Init ==
    /\ user_module = NoModule
    /\ pamh = NoHandle
    /\ service_args = [set |-> FALSE, tab |-> NoTable]
    /\ op = Op("init", 0, NoArgv, None, None, <<>>)
    /\ invoked = <<>>
    /\ result = Returned(None)
    /\ writes = 0


----------------------------------------------------------------------------
(* The environment mapping in use: pamh.env[key], pamh.env[key] = value,   *)
(* del pamh.env[key] and pam.putenv, by the application or the module.     *)

EnvKeys == {PyStr("HOME"), PyStr("X"), PyStr("LANG"), PyStr(""), PyStr("A=B"), PyInt(1)}
EnvValues == {PyStr("v"), PyStr(""), PyInt(3), None}
PutenvInputs == {PyStr("HOME=v"), PyStr("X=a=b"), PyStr("LANG="), PyStr("=v"),
                 PyStr("HOME"), PyInt(1)}

(* The mapping holds at most MaxEnv entries. *)
MaxEnv == 2

HasEnv == pamh.built /\ "env" \in DOMAIN pamh.attrs

EnvGet ==
    /\ HasEnv
    /\ \E key \in EnvKeys :
        /\ op' = Op("env_get", 0, NoArgv, key, None, <<>>)
        /\ result' = EnvGetitem(pamh.env, key)
        /\ invoked' = <<>>
        /\ UNCHANGED <<user_module, pamh, service_args, writes>>

EnvSet ==
    /\ HasEnv
    /\ \E key \in EnvKeys, value \in EnvValues :
        LET r == EnvSetitem(pamh.env, key, value)
        IN /\ Cardinality(DOMAIN r.d) <= MaxEnv
           /\ op' = Op("env_set", 0, NoArgv, key, value, <<>>)
           /\ pamh' = [pamh EXCEPT !.env = r.d]
           /\ result' = r.out
           /\ invoked' = <<>>
           /\ UNCHANGED <<user_module, service_args, writes>>

EnvDel ==
    /\ HasEnv
    /\ \E key \in EnvKeys :
        LET r == EnvDelitem(pamh.env, key)
        IN /\ op' = Op("env_del", 0, NoArgv, key, None, <<>>)
           /\ pamh' = [pamh EXCEPT !.env = r.d]
           /\ result' = r.out
           /\ invoked' = <<>>
           /\ UNCHANGED <<user_module, service_args, writes>>

(* PutenvOutcome that splits at the last '=' of kv. *)
PutenvSplitLast(h, kv) ==
    IF ~IsStr(kv)
    THEN [d |-> h.env, out |-> Raised("TypeError", None, <<"putenv expects a string">>)]
    ELSE IF ~Contains(kv.s, "=")
    THEN [d |-> h.env, out |-> Raised("ValueError", None, <<"putenv expects key=value">>)]
    ELSE IF ~h.built \/ HandleGet(h, "env").kind = "raise"
    THEN [d |-> h.env, out |-> Raised("AttributeError", None, <<"env">>)]
    ELSE LET last == CHOOSE i \in 1..Len(kv.s) :
                        /\ SubSeq(kv.s, i, i) = "="
                        /\ \A j \in (i + 1)..Len(kv.s) : SubSeq(kv.s, j, j) # "="
         IN EnvSetitem(h.env, PyStr(SubSeq(kv.s, 1, last - 1)),
                       PyStr(SubSeq(kv.s, last + 1, Len(kv.s))))

(* pam.putenv(kv): the mapping after the call, and the outcome. *)
PutenvOutcome(h, kv) ==
    IF ~IsStr(kv)
    THEN [d |-> h.env, out |-> Raised("TypeError", None, <<"putenv expects a string">>)]
    ELSE IF ~Contains(kv.s, "=")
    THEN [d |-> h.env, out |-> Raised("ValueError", None, <<"putenv expects key=value">>)]
    ELSE IF ~h.built \/ HandleGet(h, "env").kind = "raise"
    THEN [d |-> h.env, out |-> Raised("AttributeError", None, <<"env">>)]
    ELSE EnvSetitem(h.env, PyStr(SplitOnce(kv.s, "=")[1]), PyStr(SplitOnce(kv.s, "=")[2]))

Putenv ==
    \E kv \in PutenvInputs :
        LET r == PutenvOutcome(pamh, kv)
        IN /\ Cardinality(DOMAIN r.d) <= MaxEnv
           /\ op' = Op("putenv", 0, NoArgv, None, kv, <<>>)
           /\ pamh' = [pamh EXCEPT !.env = r.d]
           /\ result' = r.out
           /\ invoked' = <<>>
           /\ UNCHANGED <<user_module, service_args, writes>>

----------------------------------------------------------------------------
(* Attribute writes to the handle, pamh.name = value, by the application   *)
(* or the module.                                                          *)

AttrNames ==
    {"PAM_IGNORE", "PAM_NEW", "_PAM_RETURN_VALUES", "_constants_locked",
     "user", "tty", "authtok", "foo"}
AttrValues == {PyStr("x"), PyInt(5), None, PyBool(FALSE)}

(* The handle receives at most MaxWrites attribute writes. *)
MaxWrites == 2

SetAttr ==
    /\ pamh.built
    /\ writes < MaxWrites
    /\ \E name \in AttrNames, value \in AttrValues :
        LET w == HandleSetattr(pamh, name, value)
        IN /\ op' = Op("setattr", 0, NoArgv, PyStr(name), value, <<>>)
           /\ pamh' = w.h
           /\ result' = w.out
           /\ invoked' = <<>>
           /\ writes' = writes + 1
           /\ UNCHANGED <<user_module, service_args>>

(* pam.set_item(item, value): _item_map names the attribute of an item    *)
(* number; an unknown number is ignored.                                   *)
ItemMapName(item) ==
    CASE item = 2 -> "user"
      [] item = 3 -> "tty"
      [] item = 4 -> "rhost"
      [] item = 8 -> "ruser"
      [] item = 9 -> "user_prompt"
      [] item = 11 -> "xdisplay"
      [] item = 13 -> "authtok_type"
      [] OTHER -> ""

(* The handle after the call, and the outcome; setattr on None fails. *)
SetItemOutcome(h, item, value) ==
    IF ItemMapName(item) = "" THEN [h |-> h, out |-> Returned(None)]
    ELSE IF ~h.built
    THEN [h |-> h, out |-> Raised("AttributeError", None,
            <<"'NoneType' object has no attribute '" \o ItemMapName(item) \o "'">>)]
    ELSE HandleSetattr(h, ItemMapName(item), value)

ItemNumbers == {2, 3, 13, 99}

SetItem ==
    /\ writes < MaxWrites
    /\ \E item \in ItemNumbers, value \in AttrValues :
        LET w == SetItemOutcome(pamh, item, value)
        IN /\ op' = Op("set_item", 0, NoArgv, PyInt(item), value, <<>>)
           /\ pamh' = w.h
           /\ result' = w.out
           /\ invoked' = <<>>
           /\ writes' = writes + 1
           /\ UNCHANGED <<user_module, service_args>>

----------------------------------------------------------------------------
(* PamHandle_type.conversation: the module asks the application, through   *)
(* the delegate stored on the handle as conv.                              *)

(* Sequences and objects as Python values: a list or tuple carries its     *)
(* items; a Message-like object has the attributes msg (s) and msg_style   *)
(* (n), a "MsgOnly" object has msg alone; Resp is the class conversation   *)
(* builds its answers from.                                                *)
PyList(items) == [t |-> "list", s |-> "", n |-> 0, items |-> items]
PyTuple(items) == [t |-> "tuple", s |-> "", n |-> 0, items |-> items]
MessageObj(msg, style) == [t |-> "Message", s |-> msg, n |-> style]
MsgOnlyObj(msg) == [t |-> "MsgOnly", s |-> msg, n |-> 0]
Resp(resp, resp_retcode) ==
    [t |-> "Resp", s |-> "", n |-> 0, resp |-> resp, resp_retcode |-> resp_retcode]

(* isinstance(v, (list, tuple)) *)
IsSequence(v) == v.t \in {"list", "tuple"}

(* str(m) of the values a delegate hands back here. *)
PyStrOf(m) ==
    CASE m.t = "str" -> m.s
      [] m.t = "int" -> ToString(m.n)
      [] m.t = "bool" -> IF m.n = 1 THEN "True" ELSE "False"
      [] m.t = "none" -> "None"
      [] m.t = "list" /\ m.items = <<>> -> "[]"
      [] m.t = "tuple" /\ m.items = <<>> -> "()"
      [] m.t = "list" -> "['" \o m.items[1].s \o "']"
      [] m.t = "tuple" -> "('" \o m.items[1].s \o "',)"
      [] OTHER -> "<" \o m.t \o " object>"

(* The Resp made from one element of what the delegate returned. *)
ToResp(m) ==
    IF m.t = "Message" THEN Resp(PyStr(m.s), PyInt(m.n))
    ELSE IF m.t = "MsgOnly" THEN Resp(PyStr(m.s), PyInt(0))
    ELSE IF IsSequence(m) /\ Len(m.items) >= 2 THEN Resp(m.items[1], m.items[2])
    ELSE Resp(PyStr(PyStrOf(m)), PyInt(0))

(* responses: one Resp per element of a list or tuple, one Resp for any    *)
(* other return value.                                                     *)
BuildResponses(res) ==
    LET iterable == IF IsSequence(res) THEN res.items ELSE <<res>>
    IN [i \in 1..Len(iterable) |-> ToResp(iterable[i])]

(* The three call shapes, in the order conversation tries them:            *)
(* conv(self, convs), conv(convs), conv(self, convs, None).                *)
CallShapes == <<"hp", "p", "hpx">>

(* One call of the delegate: sig is the set of shapes its signature        *)
(* accepts, beh what its body does when it runs.  A shape the signature    *)
(* does not accept raises TypeError before the body runs.                  *)
Attempt(sig, shape, beh) ==
    IF shape \in sig
    THEN [shape |-> shape, ran |-> TRUE, out |-> beh]
    ELSE [shape |-> shape, ran |-> FALSE,
          out |-> Raised("TypeError", None, <<"unexpected positional arguments">>)]

IsTypeError(out) == out.kind = "raise" /\ out.exc = "TypeError"

(* The try / except TypeError ladder: the attempts made, in order.  b is   *)
(* what the body does the first time it runs, again what it does when it   *)
(* is run another time.                                                    *)
ConvAttempts(sig, b, again) ==
    LET a1 == Attempt(sig, CallShapes[1], b)
        a2 == Attempt(sig, CallShapes[2], IF a1.ran THEN again ELSE b)
        a3 == Attempt(sig, CallShapes[3], IF a1.ran \/ a2.ran THEN again ELSE b)
    IN IF ~IsTypeError(a1.out) THEN <<a1>>
       ELSE IF ~IsTypeError(a2.out) THEN <<a1, a2>>
       ELSE <<a1, a2, a3>>

(* ConversationOutcome that hands back the tuple for a single message too. *)
ConversationAlwaysTuple(convs, sig, b, again) ==
    LET tried == ConvAttempts(sig, b, again)
        res == tried[Len(tried)].out
    IN IF res.kind = "raise" THEN [invoked |-> tried, out |-> res]
       ELSE [invoked |-> tried, out |-> Returned(PyTuple(BuildResponses(res.val)))]

(* conversation(convs): the attempts it makes and its outcome. *)
ConversationOutcome(convs, sig, b, again) ==
    LET tried == ConvAttempts(sig, b, again)
        res == tried[Len(tried)].out
        responses == BuildResponses(res.val)
    IN IF res.kind = "raise" THEN [invoked |-> tried, out |-> res]
       ELSE IF ~IsSequence(convs)
       THEN IF Len(responses) = 0 THEN [invoked |-> tried, out |-> Returned(None)]
            ELSE [invoked |-> tried, out |-> Returned(responses[1])]
       ELSE [invoked |-> tried, out |-> Returned(PyTuple(responses))]

(* A prompt payload: one message, or a list of up to MaxMsgs messages. *)
MaxMsgs == 2
Prompt(i) == MessageObj("prompt", i)
Payloads ==
    {Prompt(1)} \cup {PyList([i \in 1..k |-> Prompt(i)]) : k \in 0..MaxMsgs}

(* What a delegate hands back: a list of up to MaxReplies replies, the     *)
(* reply at each position of another form, or a single value.              *)
MaxReplies == 3
Reply(i) ==
    CASE i % 4 = 1 -> PyTuple(<<PyStr("secret"), PyInt(1)>>)
      [] i % 4 = 2 -> MessageObj("yes", 2)
      [] i % 4 = 3 -> PyInt(5)
      [] OTHER -> MsgOnlyObj("no")
ConvBehaviours ==
    {Returned(PyList([i \in 1..k |-> Reply(i)])) : k \in 0..MaxReplies}
    \cup {Returned(Reply(2)), Returned(PyStr("secret")), Returned(None)}
    \cup {Raised("TypeError", None, <<"bad reply">>),
          Raised("RuntimeError", None, <<"no terminal">>)}

(* Signatures of delegates: (pamh, convs), (convs), (pamh, convs, extra),  *)
(* (pamh, convs, extra=None), any number of arguments, and no argument.    *)
Signatures == {{"hp"}, {"p"}, {"hpx"}, {"hp", "hpx"}, {"hp", "p", "hpx"}, {}}
Delegate(sig) == [t |-> "function", s |-> "", n |-> 0, shapes |-> sig]

Conversation ==
    /\ pamh.built
    /\ "conv" \in DOMAIN pamh.attrs
    /\ \E convs \in Payloads, sig \in Signatures, b \in ConvBehaviours :
        \E again \in IF IsTypeError(b) THEN ConvBehaviours ELSE {b} :
            LET c == ConversationOutcome(convs, sig, b, again)
            IN /\ op' = Op("conversation", 0, NoArgv, Delegate(sig), convs, <<>>)
               /\ invoked' = c.invoked
               /\ result' = c.out
               /\ UNCHANGED <<user_module, pamh, service_args, writes>>

----------------------------------------------------------------------------
(* pam.__del__: the dispatcher is discarded. *)

(* The call pam_sm_end(self._pamh), as recorded in invoked. *)
EndInvocation(h, beh) ==
    [name |-> "pam_sm_end", handle |-> h.built, nargs |-> 1, out |-> beh]

(* __del__: the invocations it makes and its outcome.  Both try blocks     *)
(* catch Exception.                                                        *)
DelOutcome(cur, beh) ==
    IF ~cur[1].loaded THEN [invoked |-> <<>>, out |-> Returned(None)]
    ELSE IF cur[1].attrs["pam_sm_end"] \in {"absent", "none"}
    THEN [invoked |-> <<>>, out |-> Returned(None)]
    ELSE IF cur[1].attrs["pam_sm_end"] = "noncallable"
    THEN [invoked |-> <<>>, out |-> Returned(None)]
    ELSE [invoked |-> <<EndInvocation(cur[2], beh)>>,
          out |-> IF beh.kind = "raise" /\ ~IsExceptionClass(beh.exc)
                  THEN beh ELSE Returned(None)]

Discard ==
    \E beh \in ModuleBehaviours :
        LET c == DelOutcome(Cur, beh)
        IN /\ op' = Op("del", 0, NoArgv, None, None, <<>>)
           /\ invoked' = c.invoked
           /\ result' = c.out
           /\ UNCHANGED <<user_module, pamh, service_args, writes>>

Next ==
    \/ Start
    \/ Authenticate
    \/ Setcred
    \/ AcctMgmt
    \/ OpenSession
    \/ CloseSession
    \/ Chauthtok

Spec == Init /\ [][Next]_vars

(* The environment mapping of a transaction. *)
NextEnv ==
    \/ Start
    \/ EnvGet
    \/ EnvSet
    \/ EnvDel
    \/ Putenv

SpecEnv == Init /\ [][NextEnv]_vars

(* The attributes of a transaction handle. *)
NextHandle ==
    \/ Start
    \/ SetAttr
    \/ SetItem

SpecHandle == Init /\ [][NextHandle]_vars

(* Conversations of a transaction. *)
NextConv ==
    \/ Start
    \/ Conversation

SpecConv == Init /\ [][NextConv]_vars

(* A transaction from start to discard.  __del__ leaves the fields of the  *)
(* dispatcher as they are.                                                 *)
NextDiscard ==
    \/ Start
    \/ Authenticate
    \/ CloseSession
    \/ Discard

SpecDiscard == Init /\ [][NextDiscard]_vars

----------------------------------------------------------------------------
(* Vocabulary of the properties below. *)

LifecycleOps ==
    {"authenticate", "setcred", "acct_mgmt", "open_session", "close_session", "chauthtok"}
FuncOf(opname) == "pam_sm_" \o opname

(* The transaction is started: start went through. *)
Started == user_module.loaded /\ pamh.built
LifecycleCall == op.name \in LifecycleOps
Last(seq) == seq[Len(seq)]

(* A constant as the handle holds it, or its default. *)
HandleConst(name, default) ==
    IF name \in DOMAIN pamh.attrs THEN pamh.attrs[name] ELSE PyInt(default)

ReturnedInt(inv) == inv.out.kind = "return" /\ inv.out.val.t = "int"
MayProceed(inv) ==
    inv.out.kind = "return" /\ (inv.out.val.t = "int" => inv.out.val.n = 0)

SymbolNotFound ==
    [kind |-> "raise", exc |-> "error", val |-> None, code |-> PyInt(2),
     args |-> <<"Symbol not found">>]
NotStarted ==
    [kind |-> "raise", exc |-> "RuntimeError", val |-> None, code |-> None,
     args |-> <<"module not started">>]

(* C1, as claimed: on a started transaction whose module defines           *)
(* pam_sm_chauthtok, whatever integer the first invocation returns,        *)
(* chauthtok invokes the function exactly twice, with the                  *)
(* preliminary-check flag and then with the update flag.                   *)
C1_TwiceWhateverFirstReturns ==
    (Started /\ op.name = "chauthtok" /\ Len(invoked) >= 1 /\ ReturnedInt(invoked[1]))
        => /\ Len(invoked) = 2
           /\ invoked[1].flags = HandleConst("PAM_PRELIM_CHECK", 16384)
           /\ invoked[2].flags = HandleConst("PAM_UPDATE_AUTHTOK", 8192)

(* C1, amended: on a started transaction whose module defines              *)
(* pam_sm_chauthtok, chauthtok first invokes it with the preliminary-check *)
(* flag; when that invocation returns 0 or a non-integer it is invoked a   *)
(* second time with the update flag, with the same argv, and the outcome   *)
(* of chauthtok is the translated outcome of the second invocation alone;  *)
(* when the first invocation returns a non-zero integer or raises, the     *)
(* function is invoked once only and chauthtok raises.                     *)
C1_TwoPhase ==
    (Started /\ op.name = "chauthtok" /\ user_module.attrs["pam_sm_chauthtok"] = "func")
        => /\ Len(invoked) \in {1, 2}
           /\ \A i \in 1..Len(invoked) : invoked[i].name = "pam_sm_chauthtok"
           /\ invoked[1].flags = HandleConst("PAM_PRELIM_CHECK", 16384)
           /\ Len(invoked) = 2 <=> MayProceed(invoked[1])
           /\ Len(invoked) = 2 =>
                /\ invoked[2].flags = HandleConst("PAM_UPDATE_AUTHTOK", 8192)
                /\ invoked[2].argv = invoked[1].argv
                /\ result = Translate(pamh, invoked[2].out)
           /\ Len(invoked) = 1 => result.kind = "raise"

C1_Witness ==
    /\ Started /\ op.name = "chauthtok" /\ Len(invoked) = 2
    /\ invoked[1].out = Returned(PyInt(0))
    /\ invoked[2].out = Returned(PyInt(1))
    /\ result.kind = "raise"

(* C2: while no module is loaded (start not called, or failed before it    *)
(* loaded one), every lifecycle entry point raises the runtime error       *)
(* "module not started" and invokes no module function.                    *)
C2_NotStarted ==
    (LifecycleCall /\ ~user_module.loaded)
        => result = NotStarted /\ invoked = <<>>

C2_Witness ==
    /\ op.name = "chauthtok" /\ op.argv.some /\ op.flags = 1
    /\ user_module = NoModule /\ pamh = NoHandle /\ ~service_args.set
    /\ result = NotStarted

(* C3: on a started transaction, when the module has no callable attribute *)
(* of the entry point's name, the call raises PAM.error("Symbol not        *)
(* found", 2) and invokes nothing.                                         *)
C3_SymbolNotFound ==
    (Started /\ LifecycleCall /\ user_module.attrs[FuncOf(op.name)] # "func")
        => result = SymbolNotFound /\ invoked = <<>>

C3_Witness ==
    /\ Started /\ op.name = "acct_mgmt"
    /\ user_module.attrs["pam_sm_acct_mgmt"] = "noncallable"
    /\ result = SymbolNotFound

(* C4: on a started transaction, when the module function returns the      *)
(* handle's PAM_IGNORE (default 25) the call raises PAM.error with the     *)
(* handle's PAM_PERM_DENIED (default 6) as its code, not the ignore value; *)
(* every other non-zero integer is the code of the PAM.error raised.       *)
C4_IgnoreRemap ==
    (Started /\ LifecycleCall /\ invoked # <<>> /\ ReturnedInt(Last(invoked)))
        => LET r == Last(invoked).out.val
               ignore == HandleConst("PAM_IGNORE", 25)
               denied == HandleConst("PAM_PERM_DENIED", 6)
           IN /\ r = ignore =>
                    /\ result.kind = "raise" /\ result.exc = "error"
                    /\ result.code = denied /\ result.code # r
              /\ (r # ignore /\ r.n # 0) =>
                    /\ result.kind = "raise" /\ result.exc = "error"
                    /\ result.code = r

C4_Witness ==
    /\ Started /\ LifecycleCall /\ invoked # <<>>
    /\ "PAM_IGNORE" \in DOMAIN pamh.attrs /\ pamh.attrs["PAM_IGNORE"] = PyInt(7)
    /\ "PAM_PERM_DENIED" \in DOMAIN pamh.attrs
    /\ Last(invoked).out = Returned(PyInt(7))
    /\ result.kind = "raise" /\ result.code = PyInt(9)

(* C5, as claimed: on a started transaction, a lifecycle call that fails   *)
(* raises PAM.error("Symbol not found", 2), or the PAM.error that wraps a  *)
(* non-zero integer the module function returned, or a PamException; an    *)
(* exception of the module function that is neither of the two is replaced *)
(* by PamException(3, str(e)), so that no other exception class leaves the *)
(* call.                                                                   *)
C5_Normalized ==
    (Started /\ LifecycleCall /\ result.kind = "raise")
        => /\ \/ result = SymbolNotFound /\ invoked = <<>>
              \/ /\ result.exc = "error" /\ invoked # <<>>
                 /\ \/ /\ ReturnedInt(Last(invoked)) /\ Last(invoked).out.val.n # 0
                       /\ result.args = <<"pam service returned error">>
                    \/ Last(invoked).out = result
              \/ result.exc = "PamException" /\ invoked # <<>>
           /\ (invoked # <<>> /\ Last(invoked).out.kind = "raise"
                 /\ Last(invoked).out.exc \notin {"PamException", "error"})
                => /\ result.exc = "PamException" /\ result.code = PyInt(3)
                   /\ result.args = <<StrOfExc(Last(invoked).out.args)>>

(* C7: on a started transaction, when the module function returns 0 the    *)
(* call returns 0; when it returns a non-zero integer that is not the      *)
(* ignore constant the call raises PAM.error with that integer as code; no *)
(* call returns a non-zero integer.                                        *)
C7_ZeroOrError ==
    (Started /\ LifecycleCall)
        => /\ (invoked # <<>> /\ ReturnedInt(Last(invoked)))
                => LET r == Last(invoked).out.val
                   IN /\ r.n = 0 => result = Returned(PyInt(0))
                      /\ (r.n # 0 /\ r # HandleConst("PAM_IGNORE", 25))
                            => /\ result.kind = "raise" /\ result.exc = "error"
                               /\ result.code = r
           /\ (result.kind = "return" /\ result.val.t \in {"int", "bool"})
                => result.val.n = 0

C7_Witness ==
    /\ Started /\ op.name = "authenticate" /\ Len(invoked) = 1
    /\ invoked[1].out = Returned(PyInt(0))
    /\ result = Returned(PyInt(0))

(* C6, as claimed: start from the one-line configuration                   *)
(* "login auth /lib/pam_python.so /opt/mod.py arg1 arg2" loads             *)
(* /opt/mod.py and builds the table {auth: [arg1, arg2]}, and the          *)
(* authenticate call that follows, with no argv, invokes                   *)
(* pam_sm_authenticate with [arg1, arg2].                                  *)
C6_LoginLineAuthArgs ==
    [][/\ (op'.name = "start" /\ op'.cfg = CfgLogin.lines /\ result'.kind = "return")
            => /\ user_module'.file = "/opt/mod.py"
               /\ service_args'.tab = [auth |-> <<"arg1", "arg2">>]
       /\ (/\ op.name = "start" /\ op.cfg = CfgLogin.lines /\ result.kind = "return"
           /\ op'.name = "authenticate" /\ ~op'.argv.some /\ invoked' # <<>>)
            => invoked'[1].argv = Argv(<<"arg1", "arg2">>)]_vars

(* C6, amended: start from that configuration loads /opt/mod.py and builds *)
(* the table {login: [/opt/mod.py, arg1, arg2]}, keyed by the first field  *)
(* of the line and holding its fourth and later fields; the authenticate   *)
(* call that follows, with no argv, finds no entry for auth and invokes    *)
(* pam_sm_authenticate with the handle, its flags and [/opt/mod.py], the   *)
(* module's own file path.                                                 *)
C6_LoginLine ==
    [][/\ (op'.name = "start" /\ op'.cfg = CfgLogin.lines /\ result'.kind = "return")
            => /\ user_module'.file = "/opt/mod.py"
               /\ pamh'.attrs["module_path"] = PyStr("/opt/mod.py")
               /\ service_args'.set
               /\ service_args'.tab = [login |-> <<"/opt/mod.py", "arg1", "arg2">>]
       /\ (/\ op.name = "start" /\ op.cfg = CfgLogin.lines /\ result.kind = "return"
           /\ op'.name = "authenticate" /\ ~op'.argv.some /\ invoked' # <<>>)
            => /\ Len(invoked') = 1
               /\ invoked'[1].name = "pam_sm_authenticate"
               /\ invoked'[1].handle
               /\ invoked'[1].flags = PyInt(op'.flags)
               /\ invoked'[1].argv = Argv(<<"/opt/mod.py">>)]_vars

C6_Witness ==
    /\ Started /\ op.name = "authenticate" /\ ~op.argv.some
    /\ service_args.tab = [login |-> <<"/opt/mod.py", "arg1", "arg2">>]
    /\ Len(invoked) = 1 /\ invoked[1].argv = Argv(<<"/opt/mod.py">>)

----------------------------------------------------------------------------
(* Environment mapping and handle attributes. *)

(* A key the mapping accepts: a non-empty string without '='. *)
ValidKey(key) ==
    /\ key.t = "str" /\ key.s # ""
    /\ \A i \in 1..Len(key.s) : SubSeq(key.s, i, i) # "="

KeyNotFound(key) ==
    [kind |-> "raise", exc |-> "KeyError", val |-> None, code |-> None,
     args |-> <<key.s>>]

(* The entries of the mapping other than key are the same before and after. *)
OthersUntouched(key) ==
    /\ DOMAIN pamh'.env \ {key.s} = DOMAIN pamh.env \ {key.s}
    /\ \A k \in DOMAIN pamh.env \ {key.s} : pamh'.env[k] = pamh.env[k]

(* C8: for a non-empty, '='-free string key k and a string value v, in any *)
(* state of the mapping: set(k, v) succeeds, after it get(k) returns v and *)
(* the other keys are untouched; delete(k) of a present k succeeds, after  *)
(* it get(k) fails with KeyError and the other keys are untouched; delete  *)
(* of an absent key fails with KeyError and leaves the mapping unchanged.  *)
C8_SetGetDelete ==
    [][/\ (op'.name = "env_set" /\ ValidKey(op'.key) /\ op'.value.t = "str")
            => /\ result' = Returned(None)
               /\ EnvGetitem(pamh'.env, op'.key) = Returned(op'.value)
               /\ OthersUntouched(op'.key)
       /\ (op'.name = "env_del" /\ ValidKey(op'.key) /\ op'.key.s \in DOMAIN pamh.env)
            => /\ result' = Returned(None)
               /\ EnvGetitem(pamh'.env, op'.key) = KeyNotFound(op'.key)
               /\ OthersUntouched(op'.key)
       /\ (op'.name = "env_del"
             /\ ~(op'.key.t = "str" /\ op'.key.s \in DOMAIN pamh.env))
            => /\ result' = KeyNotFound(op'.key)
               /\ pamh'.env = pamh.env
       /\ (op'.name = "env_get" /\ ValidKey(op'.key))
            => /\ result' = IF op'.key.s \in DOMAIN pamh.env
                            THEN Returned(pamh.env[op'.key.s])
                            ELSE KeyNotFound(op'.key)
               /\ pamh'.env = pamh.env]_vars

(* A second value has been set for a key while another key is present. *)
C8_Witness ==
    /\ op.name = "env_set" /\ op.key = PyStr("HOME") /\ op.value = PyStr("")
    /\ result = Returned(None)
    /\ DOMAIN pamh.env = {"HOME", "X"}
    /\ pamh.env["HOME"] = PyStr("") /\ pamh.env["X"] = PyStr("v")

(* C9, as claimed: setting a key to a value that is not a string raises a  *)
(* TypeError, for every key.                                               *)
C9_AlwaysTypeError ==
    (op.name = "env_set" /\ op.value.t # "str")
        => result.kind = "raise" /\ result.exc = "TypeError"

(* C9, amended: setting a key to a value that is not a string fails and    *)
(* leaves the mapping unchanged, for every key; it raises a TypeError when *)
(* the key is not a string or is a non-empty string without '=', and a     *)
(* ValueError when the key is the empty string or contains '=', because    *)
(* the key is checked before the value.                                    *)
C9_NonStringValue ==
    [][(op'.name = "env_set" /\ op'.value.t # "str")
            => /\ result'.kind = "raise"
               /\ pamh'.env = pamh.env
               /\ (op'.key.t # "str" \/ ValidKey(op'.key)) => result'.exc = "TypeError"
               /\ (op'.key.t = "str" /\ ~ValidKey(op'.key)) => result'.exc = "ValueError"]_vars

C9_Witness ==
    /\ op.name = "env_set" /\ op.key = PyStr("A=B") /\ op.value = PyInt(3)
    /\ result.kind = "raise" /\ result.exc = "ValueError"
    /\ DOMAIN pamh.env # {}

(* A name that carries the reserved prefix. *)
ReservedPrefix(name) ==
    \/ Len(name) >= 4 /\ SubSeq(name, 1, 4) = "PAM_"
    \/ Len(name) >= 5 /\ SubSeq(name, 1, 5) = "_PAM_"

(* C10: once the constants of a handle are populated, a write to an        *)
(* attribute whose name starts with PAM_ or _PAM_ fails with the           *)
(* AttributeError "not writable" and leaves the handle unchanged, and a    *)
(* write to any other name (with a string, where the name is an item that  *)
(* takes only strings) succeeds and stores the value.                      *)
C10_ReservedReadOnly ==
    [][(op'.name = "setattr" /\ pamh.built)
            => /\ ReservedPrefix(op'.key.s)
                    => /\ result'.kind = "raise" /\ result'.exc = "AttributeError"
                       /\ pamh' = pamh
               /\ (~ReservedPrefix(op'.key.s)
                     /\ (op'.key.s \in {"user", "tty"} => op'.value.t = "str"))
                    => /\ result' = Returned(None)
                       /\ pamh'.attrs[op'.key.s] = op'.value]_vars

----------------------------------------------------------------------------
(* Conversation. *)

ConversationCall == op.name = "conversation"
SequencePayload == op.value.t \in {"list", "tuple"}

(* The replies in what the delegate handed back: the elements of a list or *)
(* tuple, the value itself otherwise.                                      *)
RepliesOf(ret) == IF ret.t \in {"list", "tuple"} THEN ret.items ELSE <<ret>>

(* The reply text a Response must carry for a reply. *)
ReplyTextOf(m) ==
    CASE m.t \in {"Message", "MsgOnly"} -> PyStr(m.s)
      [] m.t = "tuple" -> m.items[1]
      [] m.t = "int" -> PyStr(ToString(m.n))
      [] m.t = "none" -> PyStr("None")
      [] OTHER -> m

(* C11, as claimed: a conversation call with a single, non-sequence        *)
(* message returns a single Response, not a sequence; a call with a        *)
(* sequence of N messages returns a sequence of exactly N Responses, for   *)
(* every N >= 0 and every value the delegate returns.                      *)
C11_MatchesPayload ==
    (ConversationCall /\ result.kind = "return")
        => IF SequencePayload
           THEN /\ result.val.t = "tuple"
                /\ Len(result.val.items) = Len(op.value.items)
                /\ \A i \in 1..Len(result.val.items) : result.val.items[i].t = "Resp"
           ELSE result.val.t = "Resp"

(* C11, amended: a conversation call that returns builds one Response per  *)
(* reply of the delegate, in the order of the replies (the elements of the *)
(* list or tuple the delegate returned, or its return value as the only    *)
(* reply); with a single, non-sequence message the result is the first of  *)
(* these Responses alone, not a sequence, or None when there is no reply;  *)
(* with a sequence of N messages the result is the sequence of all of      *)
(* them, which has N Responses exactly when the delegate gave N replies.   *)
C11_MatchesReplies ==
    (ConversationCall /\ result.kind = "return")
        => LET replies == RepliesOf(Last(invoked).out.val)
           IN IF SequencePayload
              THEN /\ result.val.t = "tuple"
                   /\ Len(result.val.items) = Len(replies)
                   /\ \A i \in 1..Len(replies) :
                        /\ result.val.items[i].t = "Resp"
                        /\ result.val.items[i].resp = ReplyTextOf(replies[i])
                   /\ Len(replies) = Len(op.value.items)
                        => Len(result.val.items) = Len(op.value.items)
              ELSE IF replies = <<>> THEN result.val = None
              ELSE /\ result.val.t = "Resp"
                   /\ result.val.resp = ReplyTextOf(replies[1])

(* Two messages were answered by two replies, in order. *)
C11_Witness ==
    /\ ConversationCall /\ SequencePayload /\ Len(op.value.items) = 2
    /\ result.kind = "return" /\ result.val.t = "tuple"
    /\ Len(result.val.items) = 2
    /\ result.val.items[1].resp = PyStr("secret")
    /\ result.val.items[2].resp = PyStr("yes")

----------------------------------------------------------------------------
(* Start, handle and discard. *)

(* C12, as claimed: in every state reached by start calls (succeeding or   *)
(* failing, with any user value) and lifecycle calls, the dispatcher holds *)
(* a loaded module exactly when it holds a built transaction handle; a     *)
(* lifecycle call on a dispatcher without a handle fails with "module not  *)
(* started", and no module function is invoked with an absent handle.      *)
C12_ModuleIffHandle ==
    /\ user_module.loaded <=> pamh.built
    /\ (LifecycleCall /\ ~pamh.built) => result = NotStarted /\ invoked = <<>>
    /\ \A i \in 1..Len(invoked) : invoked[i].handle

(* C19, as claimed: when a dispatcher is discarded, the discard completes  *)
(* without an error; if the transaction was started and the module defines *)
(* pam_sm_end, that function is invoked once, with the transaction handle  *)
(* as its only argument; if it was never started or the module has no      *)
(* pam_sm_end, no module function is invoked.                              *)
C19_BestEffortEnd ==
    op.name = "del"
        => /\ result = Returned(None)
           /\ (Started /\ user_module.attrs["pam_sm_end"] = "func")
                => /\ Len(invoked) = 1
                   /\ invoked[1].name = "pam_sm_end"
                   /\ invoked[1].handle /\ invoked[1].nargs = 1
           /\ (~Started \/ user_module.attrs["pam_sm_end"] \in {"absent", "none"})
                => invoked = <<>>

----------------------------------------------------------------------------
(* Constants and items of the handle. *)

(* The constant table of the handle is sealed: its lock reads as true. *)
Sealed(h) ==
    /\ h.built /\ "_constants_locked" \in DOMAIN h.attrs
    /\ h.attrs["_constants_locked"] \notin {None, PyBool(FALSE), PyInt(0), PyStr("")}

(* The names the table was populated with. *)
TableNames ==
    IF user_module.consts.isdict THEN DOMAIN user_module.consts.tab ELSE {"PAM_SUCCESS"}

(* C13, as claimed: once the constant table of a handle is populated and   *)
(* sealed, it stays sealed and its entries keep their values in every      *)
(* later state, whatever attribute is written to the handle (a reserved, a *)
(* non-reserved or an underscore-prefixed name).                           *)
C13_SealedForever ==
    [][Sealed(pamh)
        => /\ Sealed(pamh')
           /\ \A a \in TableNames :
                a \in DOMAIN pamh'.attrs /\ pamh'.attrs[a] = pamh.attrs[a]]_vars

(* C17, as claimed: after any attribute write or set_item call, each item  *)
(* attribute of the handle is either unset, in which case reading it gives *)
(* None and no attribute error, or holds a string; and a write of a        *)
(* non-string value to an item attribute fails with a TypeError and leaves *)
(* the handle as it was.                                                   *)
C17_ItemsAreStrings ==
    [][(pamh.built /\ op'.name \in {"setattr", "set_item"})
        => /\ \A item \in item_names :
                IF item \in DOMAIN pamh'.attrs
                THEN pamh'.attrs[item].t = "str"
                ELSE HandleGet(pamh', item) = Returned(None)
           /\ (op'.name = "setattr" /\ op'.key.s \in item_names /\ op'.value.t # "str")
                => /\ result'.kind = "raise" /\ result'.exc = "TypeError"
                   /\ pamh' = pamh]_vars

----------------------------------------------------------------------------
(* Argument vectors, configuration lines and structured errors. *)

(* The service token of a lifecycle call. *)
TokenOf(opname) ==
    CASE opname \in {"authenticate", "setcred"} -> "auth"
      [] opname = "acct_mgmt" -> "account"
      [] opname \in {"open_session", "close_session"} -> "session"
      [] opname = "chauthtok" -> "password"

(* C14: on a started transaction, the argv a lifecycle call hands to the   *)
(* module function is the explicit argv when one is given; otherwise the   *)
(* entry of the service-argument table for the call's service token        *)
(* (authenticate and setcred: auth, acct_mgmt: account, open_session and   *)
(* close_session: session, chauthtok: password); otherwise, when the table *)
(* has no such entry, the one-element vector of the module's file path.    *)
C14_ArgvResolution ==
    (Started /\ LifecycleCall)
        => \A i \in 1..Len(invoked) :
            invoked[i].argv =
                IF op.argv.some THEN op.argv
                ELSE IF TokenOf(op.name) \in DOMAIN service_args.tab
                THEN [some |-> TRUE, v |-> service_args.tab[TokenOf(op.name)]]
                ELSE [some |-> TRUE, v |-> <<user_module.file>>]

(* close_session, without argv, received the arguments of the session line. *)
C14_Witness ==
    /\ Started /\ op.name = "close_session" /\ ~op.argv.some
    /\ Len(invoked) = 1
    /\ invoked[1].argv = [some |-> TRUE, v |-> <<"/opt/mod.py", "quiet">>]

(* The fields of each line of each configuration file, and the lines that  *)
(* qualify.                                                                *)
CfgFields ==
    [cfg \in ConfigFiles |-> [i \in 1..Len(cfg.lines) |-> Split(cfg.lines[i])]]
CfgQualifying ==
    [cfg \in ConfigFiles |->
        {i \in 1..Len(cfg.lines) :
            /\ Len(CfgFields[cfg][i]) >= 4
            /\ EndsWith(CfgFields[cfg][i][3], "pam_python.so")}]

(* C15: after a start that succeeds from a configuration with qualifying   *)
(* lines (at least four fields, the third ending with pam_python.so), the  *)
(* module script path is the fourth field of the first qualifying line;    *)
(* the service-argument table has exactly the first fields of the          *)
(* qualifying lines as keys, and each key holds the fourth and later       *)
(* fields of the last qualifying line with that first field; lines that do *)
(* not qualify contribute nothing.                                         *)
C15_QualifyingLines ==
    \A cfg \in ConfigFiles :
        (/\ op.name = "start" /\ result.kind = "return"
         /\ cfg.readable /\ op.cfg = cfg.lines /\ CfgQualifying[cfg] # {})
            => LET f == CfgFields[cfg]
                   q == CfgQualifying[cfg]
                   first == CHOOSE i \in q : \A j \in q : i <= j
               IN /\ user_module.file = f[first][4]
                  /\ DOMAIN service_args.tab = {f[i][1] : i \in q}
                  /\ \A i \in q :
                        (\A j \in q : j > i => f[j][1] # f[i][1])
                            => service_args.tab[f[i][1]] = SubSeq(f[i], 4, Len(f[i]))

(* Two auth lines and an account line: the first line names the script,    *)
(* the second auth line replaced the arguments of the first.               *)
C15_Witness ==
    /\ op.name = "start" /\ result.kind = "return" /\ op.cfg = CfgTwice.lines
    /\ user_module.file = "/opt/first.py"
    /\ service_args.tab =
        [auth |-> <<"/opt/second.py", "b", "c">>, account |-> <<"/opt/second.py">>]

(* C20: on a started transaction, when the module function raises a        *)
(* PamException or a PAM.error with code c, the lifecycle call raises the  *)
(* same class with the same code and message: it is not rewrapped as code  *)
(* 3, and a code equal to the ignore constant is not remapped.             *)
C20_StructuredPassThrough ==
    (/\ Started /\ LifecycleCall /\ invoked # <<>>
     /\ Last(invoked).out.kind = "raise"
     /\ Last(invoked).out.exc \in {"PamException", "error"})
        => /\ result.kind = "raise"
           /\ result.exc = Last(invoked).out.exc
           /\ result.code = Last(invoked).out.code
           /\ result.args = Last(invoked).out.args

(* A PamException carrying the ignore value came through as it was. *)
C20_Witness ==
    /\ Started /\ op.name = "open_session" /\ Len(invoked) = 1
    /\ "PAM_IGNORE" \notin DOMAIN pamh.attrs
    /\ invoked[1].out.kind = "raise" /\ invoked[1].out.exc = "PamException"
    /\ result.exc = "PamException" /\ result.code = PyInt(25)
    /\ result.args = <<"denied">>

----------------------------------------------------------------------------
(* Environment mapping, as a whole. *)

NoEquals(str) == \A i \in 1..Len(str) : SubSeq(str, i, i) # "="

(* C16: after any set, putenv or delete on the environment mapping, with   *)
(* any arguments, every stored key is a non-empty string without '=' and   *)
(* every stored value is a string; an operation that fails fails with a    *)
(* TypeError, a ValueError or a KeyError (an AttributeError when there is  *)
(* no handle yet) and leaves the mapping unchanged; putenv of a string     *)
(* with a non-empty part before its first '=' succeeds and stores the part *)
(* after the first '=' under the part before it.                           *)
C16_EnvWellFormed ==
    [][op'.name \in {"env_set", "env_del", "putenv"}
        => /\ \A k \in DOMAIN pamh'.env :
                k # "" /\ NoEquals(k) /\ pamh'.env[k].t = "str"
           /\ result'.kind = "raise"
                => /\ pamh'.env = pamh.env
                   /\ result'.exc \in
                        IF HasEnv THEN {"TypeError", "ValueError", "KeyError"}
                        ELSE {"TypeError", "ValueError", "AttributeError"}
           /\ (/\ op'.name = "putenv" /\ HasEnv /\ op'.value.t = "str"
               /\ ~NoEquals(op'.value.s) /\ SubSeq(op'.value.s, 1, 1) # "=")
                => /\ result' = Returned(None)
                   /\ \E k \in DOMAIN pamh'.env :
                        /\ k \o "=" \o pamh'.env[k].s = op'.value.s
                        /\ \A j \in DOMAIN pamh.env \ {k} :
                                j \in DOMAIN pamh'.env /\ pamh'.env[j] = pamh.env[j]]_vars

(* putenv("X=a=b") stored "a=b" under X. *)
C16_Witness ==
    /\ op.name = "putenv" /\ op.value = PyStr("X=a=b")
    /\ result = Returned(None)
    /\ "X" \in DOMAIN pamh.env /\ pamh.env["X"] = PyStr("a=b")
    /\ Cardinality(DOMAIN pamh.env) = 2

(* C18, as claimed: a conversation call tries the shapes (handle,          *)
(* payload), (payload), (handle, payload, None) in that order and makes at *)
(* most three attempts; a later shape is tried only when every earlier     *)
(* attempt failed with a signature mismatch, the delegate never having     *)
(* run; and a delegate whose signature accepts one of the shapes is run    *)
(* exactly once in the call.                                               *)
C18_ProbeOnce ==
    ConversationCall
        => /\ Len(invoked) \in 1..3
           /\ \A i \in 1..Len(invoked) : invoked[i].shape = <<"hp", "p", "hpx">>[i]
           /\ \A i \in 1..(Len(invoked) - 1) : ~invoked[i].ran
           /\ op.key.shapes # {}
                => Cardinality({i \in 1..Len(invoked) : invoked[i].ran}) = 1

====
